---- MODULE Spec2Model ----
(***************************************************************************)
(* Model of src/compiler/extensions.ts: the extension cache              *)
(* (createExtensionCache / collectCompilerExtensions).                    *)
(*                                                                         *)
(* One cache instance is modelled.  Its configuration (options.extensions) *)
(* and its host are chosen in Init and never change; the two accessors of  *)
(* the cache are the actions.  A JavaScript exception that leaves an       *)
(* accessor is recorded in ret.raised.                                     *)
(*                                                                         *)
(* Three specifications share the definitions.  Spec: discovery is one     *)
(* step of the accessor that starts it.  SpecReentrant: discovery goes     *)
(* name by name, and host.loadExtension may call the accessor before it    *)
(* returns.  SpecProfile: the profiling recorder (startExtensionProfile,   *)
(* completeExtensionProfile) on descriptors, with a clock that never goes  *)
(* backwards.                                                              *)
(*                                                                         *)
(* Strings built by template literals whose parts a property has to look   *)
(* at (diagnostic texts) are sequences of their parts; the descriptor name *)
(* is built by string concatenation.                                       *)
(*                                                                         *)
(* The helpers of core.ts (map, filter, reduceProperties, flatten,         *)
(* groupBy) are not part of extensions.ts.  reduceProperties hands the     *)
(* callback's return value to the next call as the aggregate; what flatten *)
(* does with an element that is undefined is left open between the two     *)
(* outcomes a build can have: it drops the element, or a TypeError is      *)
(* raised (flattenSkips).                                                  *)
(***************************************************************************)
EXTENDS Integers, Sequences, FiniteSets, TLC

\* ------------------------------------------------------------------ bounds
\* longest configured list of extension names
MaxNames == 2
\* total number of exports over all the modules the host can load
MaxExports == 2
\* number of discovery passes (runs of collectCompilerExtensions) of the cache
MaxPasses == 2
\* number of calls of the profiling recorder
MaxCalls == 4

\* ------------------------------------------------------------- value model
Names == {"foo", "bar"}

Undefined == "undefined"

\* values a mapping configuration holds for a name
ArgValues == {Undefined, "{x:1}"}

SemanticLint == "semantic-lint"

SyntacticLint == "syntactic-lint"

\* an export of a loaded module: typ is its typeof ("undefined" stands for
\* null and undefined, the falsy exports), tagtyp the typeof of its
\* "extension-kind" property and tag that property's value when a string
ExportValues ==
  { [typ |-> "undefined", tagtyp |-> "undefined", tag |-> ""],
    [typ |-> "function",  tagtyp |-> "string",    tag |-> SyntacticLint],
    [typ |-> "function",  tagtyp |-> "string",    tag |-> SemanticLint],
    [typ |-> "object",    tagtyp |-> "string",    tag |-> SyntacticLint],
    [typ |-> "object",    tagtyp |-> "string",    tag |-> "custom-kind"],
    [typ |-> "function",  tagtyp |-> "undefined", tag |-> ""] }

\* keys of the exports other than "default", in enumeration order
KeyNames == <<"a", "b", "c", "d">>

\* the keys of a module with n exports whose d-th export is the default
\* export (d = 0: no default export); the modules considered have no default
\* export or enumerate it last
KeysOf(n, d) == [i \in 1..n |-> IF i = d THEN "default" ELSE KeyNames[i]]

\* the value host.loadExtension returns: undefined, or a module object
UndefinedResult == [truthy |-> FALSE, keys |-> <<>>, vals |-> <<>>]

ModulesOfSize(n) ==
  { [truthy |-> TRUE, keys |-> KeysOf(n, d), vals |-> v] :
      d \in {0, n}, v \in [1..n -> ExportValues] }

\* let error: any  (no error yet)
NoError == [truthy |-> FALSE, text |-> <<>>, stack |-> ""]

\* values host.loadExtension can raise: an Error object, a string, undefined
ThrownValues ==
  { [truthy |-> TRUE,  text |-> <<"Error: load failed">>, stack |-> "at load"],
    [truthy |-> TRUE,  text |-> <<"load failed">>,        stack |-> ""],
    [truthy |-> FALSE, text |-> <<Undefined>>,            stack |-> ""] }

\* what the host does for one name: whether resolveModuleName finds it, and
\* whether loadExtension raises or returns for it
Unresolved ==
  [resolved |-> FALSE, throws |-> FALSE, thrown |-> NoError, result |-> UndefinedResult]

ReturnsUndefined ==
  [resolved |-> TRUE, throws |-> FALSE, thrown |-> NoError, result |-> UndefinedResult]

BehavioursUpTo(e) ==
  {Unresolved, ReturnsUndefined}
  \cup { [resolved |-> TRUE, throws |-> TRUE, thrown |-> t, result |-> UndefinedResult] :
           t \in ThrownValues }
  \cup { [resolved |-> TRUE, throws |-> FALSE, thrown |-> NoError, result |-> m] :
           m \in UNION { ModulesOfSize(n) : n \in 0..e } }

\* a host without loadExtension: only resolution is left to vary
BehavioursNoLoad == {Unresolved, ReturnsUndefined}

RECURSIVE HostBehaviours(_, _, _)
\* the assignments of a behaviour to each name of todo, with at most e exports
\* in total; names that are not configured are never looked at
HostBehaviours(todo, e, hasLoad) ==
  IF todo = {} THEN { [n \in Names |-> Unresolved] }
  ELSE LET n == CHOOSE x \in todo : TRUE
           choices == IF hasLoad THEN BehavioursUpTo(e) ELSE BehavioursNoLoad
       IN  UNION { { [f EXCEPT ![n] = b] :
                       f \in HostBehaviours(todo \ {n}, e - Len(b.result.vals), hasLoad) } :
                   b \in choices }

\* the configured names in the order of their first use
NameOrder == <<"foo", "bar">>

\* the position of a name in NameOrder
Rank(n) == CHOOSE i \in 1..Len(NameOrder) : NameOrder[i] = n

\* sequences of names of length at most MaxNames; the names are interchangeable,
\* so a sequence uses them in the order of NameOrder: a name appears only
\* after first uses of every name before it
NameSeqs ==
  { s \in UNION { [1..n -> Names] : n \in 0..MaxNames } :
      \A i \in 1..Len(s) : \A r \in 1..(Rank(s[i]) - 1) :
         \E j \in 1..(i - 1) : s[j] = NameOrder[r] }

Range(s) == { s[i] : i \in 1..Len(s) }

NoDuplicates(s) == \A i, j \in 1..Len(s) : s[i] = s[j] => i = j

\* ------------------------------------------------------------------- state
VARIABLES
  options,      \* options.extensions: form "array" | "map", names in order, args by name
  host,         \* the ExtensionHost: hasLoad, and its behaviour for each name
  flattenSkips, \* whether flatten drops an undefined element (else a TypeError)
  extensions,   \* let extensions: ExtensionCollectionMap (undefined until memoized)
  diagnostics,  \* const diagnostics: Diagnostic[]
  loadCalls,    \* number of host.loadExtension invocations, per name
  passes,       \* number of runs of collectCompilerExtensions so far
  ret,          \* outcome of the latest accessor call
  firstExt,     \* what the first returning getCompilerExtensions call returned
  firstDiags,   \* what the first returning getExtensionLoadingDiagnostics call returned
  stack,        \* the runs of collectCompilerExtensions in progress, innermost last
  exts,         \* the descriptors handed to the profiling recorder
  now,          \* the latest value read from the clock, +(new Date())
  calls,        \* number of recorder calls so far
  lastCall,     \* the latest recorder call and its outcome
  history       \* per descriptor and task: the latest recorder call that returned,
                \* the start it wrote, and the completions since that start

cacheVars == <<extensions, diagnostics, loadCalls, passes, ret, firstExt, firstDiags, stack>>

recorderVars == <<exts, now, calls, lastCall, history>>

vars == <<options, host, flattenSkips, cacheVars, recorderVars>>

\* the empty ExtensionCollectionMap {}
EmptyMap == [k \in {} |-> <<>>]

\* ---------------------------------------------------------------- loader
\* CouldNotLocate with a message that leaves the name out
CouldNotLocateUnnamed(name) ==
  [truthy |-> TRUE,
   text   |-> <<"Error: Host could not locate extension.">>,
   stack  |-> "at collectCompilerExtensions"]

\* new Error(`Host could not locate extension '${name}'.`)
CouldNotLocate(name) ==
  [truthy |-> TRUE,
   text   |-> <<"Error: Host could not locate extension '", name, "'.">>,
   stack  |-> "at collectCompilerExtensions"]

\* new Error("Extension loading not implemented in host!")
NotImplemented ==
  [truthy |-> TRUE,
   text   |-> <<"Error: Extension loading not implemented in host!">>,
   stack  |-> "at collectCompilerExtensions"]

\* createCompilerDiagnostic(Diagnostics.Extension_loading_failed_with_error_0, ...)
LoadDiagnostic(error) ==
  [code |-> "Extension_loading_failed_with_error_0",
   args |-> << IF error.stack # ""
               THEN error.text \o <<"Stack trace:", error.stack>>
               ELSE error.text >>]

\* Loader with the name resolved before host.loadExtension is looked for
LoaderResolvesFirst(h, name) ==
  LET b == h.behaviour[name]
  IN  IF b.resolved
      THEN IF h.hasLoad
           THEN IF b.throws
                THEN [name |-> name, result |-> UndefinedResult, error |-> b.thrown, called |-> TRUE]
                ELSE [name |-> name, result |-> b.result, error |-> NoError, called |-> TRUE]
           ELSE [name |-> name, result |-> UndefinedResult, error |-> NotImplemented, called |-> FALSE]
      ELSE [name |-> name, result |-> UndefinedResult, error |-> CouldNotLocate(name), called |-> FALSE]

\* the callback of map(extensionNames, ...) up to the error check: the
\* { name, result, error } it returns, and whether host.loadExtension ran
Loader(h, name) ==
  LET b == h.behaviour[name]
  IN  IF h.hasLoad
      THEN IF b.resolved
           THEN IF b.throws
                THEN [name |-> name, result |-> UndefinedResult, error |-> b.thrown, called |-> TRUE]
                ELSE [name |-> name, result |-> b.result, error |-> NoError, called |-> TRUE]
           ELSE [name |-> name, result |-> UndefinedResult, error |-> CouldNotLocate(name), called |-> FALSE]
      ELSE [name |-> name, result |-> UndefinedResult, error |-> NotImplemented, called |-> FALSE]

\* LoaderPushes that also reports a load that gave nothing
LoaderPushesOnFalsyResult(res) ==
  IF res.error.truthy \/ ~res.result.truthy THEN <<LoadDiagnostic(res.error)>> ELSE <<>>

\* if (error) { diagnostics.push(...) }
LoaderPushes(res) == IF res.error.truthy THEN <<LoadDiagnostic(res.error)>> ELSE <<>>

\* const extensionLoadResults = map(extensionNames, name => ...)
ExtensionLoadResults(o, h) == [i \in 1..Len(o.names) |-> Loader(h, o.names[i])]

RECURSIVE LoaderDiagnostics(_, _)
\* the diagnostics the loader pass pushes, in the order of the names
LoaderDiagnostics(results, i) ==
  IF i > Len(results) THEN <<>>
  ELSE LoaderPushes(results[i]) \o LoaderDiagnostics(results, i + 1)

\* filter(extensionLoadResults, res => !res.error)
SuccessfulExtensionLoadResults(results) == SelectSeq(results, LAMBDA res : ~res.error.truthy)

\* ------------------------------------------------------------ classifier
\* a reference to the exported value of key `key` of the module loaded for
\* `name` (typ: its typeof); NoRef is a field that was never assigned
NoRef == [mod |-> "", key |-> "", typ |-> "none"]

RefTo(name, key, value) == [mod |-> name, key |-> key, typ |-> value.typ]

\* (ts as any).ExtensionKind[annotatedKind]: the namespace has the members
\* SemanticLint and SyntacticLint only
ExtensionKindMember(k) ==
  IF k = "SemanticLint" THEN SemanticLint
  ELSE IF k = "SyntacticLint" THEN SyntacticLint
  ELSE Undefined

\* createCompilerDiagnostic(Diagnostics.Extension_0_exported_member_1_has_
\* extension_kind_2_but_was_type_3_when_type_4_was_expected, ...)
ValidationDiagnostic(name, key, value) ==
  [code |-> "Extension_0_exported_member_1_has_extension_kind_2_but_was_type_3_when_type_4_was_expected",
   args |-> << <<name>>, <<key>>, <<ExtensionKindMember(value.tag)>>, <<value.typ>>, <<"function">> >>]

\* name: key !== "default" ? `${res.name}[${key}]` : res.name
ExtensionName(name, key) ==
  IF key # "default" THEN name \o "[" \o key \o "]" ELSE name

\* ExtensionArgs that never looks the name up
ExtensionArgsNeverLooksUp(o, name) == Undefined

\* args: extensionNames === extOptions ? undefined : extOptions[res.name]
ExtensionArgs(o, name) ==
  IF o.form = "array" THEN Undefined ELSE o.args[name]

\* const ext: ExtensionBase = { name, args, kind }
ExtensionBase(o, name, key, value) ==
  [name   |-> ExtensionName(name, key),
   args   |-> ExtensionArgs(o, name),
   kind   |-> value.tag,
   ctor   |-> NoRef,
   opaque |-> NoRef]

\* the accumulator of one reduceProperties run: the aggregate (undefined once
\* the callback has returned nothing), the diagnostics pushed meanwhile, and
\* whether a TypeError was raised
InitialAggregate == [defined |-> TRUE, items |-> <<>>, pushed |-> <<>>, raised |-> FALSE]

\* PushExtension that puts the descriptor in front (unshift for push)
PushExtensionInFront(acc, ext) ==
  IF acc.defined
  THEN [acc EXCEPT !.items = <<ext>> \o @]
  ELSE [acc EXCEPT !.raised = TRUE]

\* aggregate.push(ext as Extension); return aggregate;
PushExtension(acc, ext) ==
  IF acc.defined
  THEN [acc EXCEPT !.items = Append(@, ext)]
  ELSE [acc EXCEPT !.raised = TRUE]

\* ClassifyExport without the typeof test of the known kinds
ClassifyExportUnchecked(o, acc, name, key, value) ==
  IF value.typ = "undefined"
  THEN [acc EXCEPT !.defined = FALSE, !.items = <<>>]
  ELSE IF value.tagtyp = "string"
       THEN LET ext == ExtensionBase(o, name, key, value)
            IN  IF ext.kind \in {SemanticLint, SyntacticLint}
                THEN PushExtension(acc, [ext EXCEPT !.ctor = RefTo(name, key, value)])
                ELSE PushExtension(acc, [ext EXCEPT !.opaque = RefTo(name, key, value)])
       ELSE acc

\* the callback handed to reduceProperties
ClassifyExport(o, acc, name, key, value) ==
  IF value.typ = "undefined"
  THEN [acc EXCEPT !.defined = FALSE, !.items = <<>>]
  ELSE IF value.tagtyp = "string"
       THEN LET ext == ExtensionBase(o, name, key, value)
            IN  IF ext.kind \in {SemanticLint, SyntacticLint}
                THEN IF value.typ # "function"
                     THEN [acc EXCEPT !.defined = FALSE, !.items = <<>>,
                                      !.pushed = Append(@, ValidationDiagnostic(name, key, value))]
                     ELSE PushExtension(acc, [ext EXCEPT !.ctor = RefTo(name, key, value)])
                ELSE PushExtension(acc, [ext EXCEPT !.opaque = RefTo(name, key, value)])
       ELSE acc

RECURSIVE ReduceProperties(_, _, _, _)
\* reduceProperties(res.result, callback, []): the callback's return value is
\* the aggregate of the next property; an exception ends the enumeration
ReduceProperties(o, res, acc, i) ==
  IF i > Len(res.result.keys) \/ acc.raised THEN acc
  ELSE ReduceProperties(o, res,
         ClassifyExport(o, acc, res.name, res.result.keys[i], res.result.vals[i]), i + 1)

\* the callback of map(successfulExtensionLoadResults, ...)
PrepareExtensionObjects(o, res) ==
  IF res.result.truthy
  THEN ReduceProperties(o, res, InitialAggregate, 1)
  ELSE InitialAggregate

RECURSIVE PreparedExtensionObjects(_, _, _, _)
\* map(successfulExtensionLoadResults, ...): the per-module results so far,
\* the diagnostics pushed, and whether an exception ended the pass
PreparedExtensionObjects(o, results, st, i) ==
  IF i > Len(results) \/ st.raised THEN st
  ELSE LET r == PrepareExtensionObjects(o, results[i])
       IN  PreparedExtensionObjects(o, results,
             [lists  |-> Append(st.lists, [defined |-> r.defined, items |-> r.items]),
              pushed |-> st.pushed \o r.pushed,
              raised |-> r.raised], i + 1)

RECURSIVE Flatten(_, _)
\* flatten(preparedExtensionObjects), for arrays
Flatten(lists, i) ==
  IF i > Len(lists) THEN <<>>
  ELSE (IF lists[i].defined THEN lists[i].items ELSE <<>>) \o Flatten(lists, i + 1)

RECURSIVE GroupBy(_, _, _)
\* groupBy(array, elem => elem.kind): each element is appended to the group
\* of its kind, which is created on first use
GroupBy(array, groups, i) ==
  IF i > Len(array) THEN groups
  ELSE LET k == array[i].kind
           grown == IF k \in DOMAIN groups
                    THEN [groups EXCEPT ![k] = Append(@, array[i])]
                    ELSE [g \in DOMAIN groups \cup {k} |->
                            IF g = k THEN <<array[i]>> ELSE groups[g]]
       IN  GroupBy(array, grown, i + 1)

\* const preparedExtensionObjects = map(successfulExtensionLoadResults, ...),
\* for given extensionLoadResults
PreparedFrom(o, results) ==
  PreparedExtensionObjects(o, SuccessfulExtensionLoadResults(results),
    [lists |-> <<>>, pushed |-> <<>>, raised |-> FALSE], 1)

\* preparedExtensionObjects when every load is left to the host
Prepared(o, h) == PreparedFrom(o, ExtensionLoadResults(o, h))

\* some element of preparedExtensionObjects is undefined
Holed(o, h) ==
  LET prepared == Prepared(o, h)
  IN  \E i \in 1..Len(prepared.lists) : ~prepared.lists[i].defined

\* collectCompilerExtensions from the filter on (lines 155-200), for given
\* extensionLoadResults: what it pushes to diagnostics, and the map it
\* returns unless it raises.  An element of preparedExtensionObjects that is
\* undefined is either dropped by flatten (skips) or makes flatten/groupBy
\* raise a TypeError.
Classified(o, results, skips) ==
  LET prepared == PreparedFrom(o, results)
      holed == \E i \in 1..Len(prepared.lists) : ~prepared.lists[i].defined
      raised == prepared.raised \/ (holed /\ ~skips)
  IN  [raised |-> raised,
       pushed |-> prepared.pushed,
       map    |-> IF raised THEN EmptyMap
                  ELSE GroupBy(Flatten(prepared.lists, 1), EmptyMap, 1)]

\* function collectCompilerExtensions(): what it pushes to diagnostics, the
\* resolved names it hands to host.loadExtension, and the map it returns
\* unless it raises.
CollectCompilerExtensions(o, h, skips) ==
  LET extensionLoadResults == ExtensionLoadResults(o, h)
      c == Classified(o, extensionLoadResults, skips)
  IN  [raised |-> c.raised,
       pushed |-> LoaderDiagnostics(extensionLoadResults, 1) \o c.pushed,
       loaded |-> [n \in Names |->
                     Cardinality({ i \in 1..Len(extensionLoadResults) :
                        extensionLoadResults[i].name = n /\ extensionLoadResults[i].called })],
       map    |-> c.map]

\* --------------------------------------------------- profiling recorder
\* the descriptors (ExtensionBase objects) the recorder is called with
Exts == {"e1", "e2"}

\* the task names the recorder is called with: one that no object has a
\* member for, and one that names a member of Object.prototype
Tasks == {"lint", "toString"}

\* the members ext.profiles = {} inherits from Object.prototype: looking one
\* up gives a function when the mapping has no own record of that name
InheritedMembers == {"toString"}

\* a mapping without records, {}
NoRecords == [t \in {} |-> <<>>]

\* profiles?: Map<ProfileData>, absent on a descriptor never profiled
NoProfiles == [defined |-> FALSE, own |-> NoRecords]

\* no recorder call yet
NoCall == [op |-> "none", ext |-> "", task |-> "", time |-> 0, outcome |-> "none"]

\* m[k] = v on a mapping
Put(m, k, v) == [x \in DOMAIN m \cup {k} |-> IF x = k THEN v ELSE m[x]]

\* the mapping has a record of its own under the task
HasOwnRecord(p, task) == p.defined /\ task \in DOMAIN p.own

\* !!ext.profiles[task], for a mapping that is there
LooksUpTruthy(p, task) == task \in DOMAIN p.own \/ task \in InheritedMembers

\* Debug.assert(expression, message) returns when the expression is true and
\* raises the assertion failure otherwise
DebugAssertPasses(expression) == expression

\* Started that makes a new mapping on every call
StartedOnNewMapping(p, task, t) ==
  [defined |-> TRUE,
   own     |-> Put(NoRecords, task, [task |-> task, start |-> t, length |-> -1])]

\* startExtensionProfile: ext.profiles after the call that reads t from the
\* clock
Started(p, task, t) ==
  [defined |-> TRUE,
   own     |-> Put(IF p.defined THEN p.own ELSE NoRecords, task,
                   [task |-> task, start |-> t, length |-> -1])]

\* Completed that also moves the start to the time of completion
CompletedMovesStart(p, task, endTime) ==
  [p EXCEPT !.own[task].length = endTime - p.own[task].start,
            !.own[task].start = endTime]

\* Completed with the difference taken the other way round
CompletedBackwards(p, task, endTime) ==
  [p EXCEPT !.own[task].length = p.own[task].start - endTime]

\* ext.profiles[task].length = endTime - ext.profiles[task].start, on a
\* record of the mapping's own
Completed(p, task, endTime) ==
  [p EXCEPT !.own[task].length = endTime - p.own[task].start]

\* how a completeExtensionProfile call ends: "assertion" (Debug.assert
\* raised), "returned", or "TypeError".  When the task names an inherited
\* member and the mapping has no own record of it, both assertions pass and
\* line 76 assigns to the length of a function, which is not writable: the
\* assignment is ignored, or raises a TypeError where the code runs strict.
CompleteOutcomes(p, task) ==
  IF ~DebugAssertPasses(p.defined) THEN {"assertion"}
  ELSE IF ~DebugAssertPasses(LooksUpTruthy(p, task)) THEN {"assertion"}
  ELSE IF task \in DOMAIN p.own THEN {"returned"}
  ELSE {"returned", "TypeError"}

\* ------------------------------------------------------------ the cache
\* the configurations: an ordered sequence of names, or a mapping from names
\* (enumerated by getKeys in insertion order) to argument values; a mapping
\* holds different values for different names
Configurations ==
  { [form |-> "array", names |-> s, args |-> [n \in Names |-> Undefined]] : s \in NameSeqs }
  \cup
  { [form |-> "map", names |-> s, args |-> a] :
      s \in { t \in NameSeqs : NoDuplicates(t) },
      a \in { f \in [Names -> ArgValues] : \A m, n \in Names : f[m] = f[n] => m = n } }

\* what an accessor call gave its caller: kind is "map" (a returned
\* ExtensionCollectionMap), "diagnostics" (a returned Diagnostic[]), "raised"
\* (an exception left the call) or "none" (no call yet)
NoReturn == [kind |-> "none", map |-> EmptyMap, diags |-> <<>>]

Raised == [kind |-> "raised", map |-> EmptyMap, diags |-> <<>>]

\* the recorder has not been called: the descriptors are as the classifier
\* builds them (lines 163-167), without a profiles field
RecorderIdle ==
  /\ exts = [e \in Exts |-> [name |-> e, args |-> Undefined, kind |-> SyntacticLint,
                              profiles |-> NoProfiles]]
  /\ now = 0
  /\ calls = 0
  /\ lastCall = NoCall
  /\ history = [e \in Exts |-> [t \in Tasks |-> [last |-> "none", written |-> -1, completions |-> 0]]]

\* a cache right after createExtensionCache returned it
CacheCreated ==
  /\ extensions = [defined |-> FALSE, map |-> EmptyMap]
  /\ diagnostics = <<>>
  /\ loadCalls = [n \in Names |-> 0]
  /\ passes = 0
  /\ ret = NoReturn
  /\ firstExt = [set |-> FALSE, map |-> EmptyMap]
  /\ firstDiags = [set |-> FALSE, diags |-> <<>>]
  /\ stack = <<>>

Init ==
  /\ options \in Configurations
  /\ \E hasLoad \in BOOLEAN :
       \E b \in HostBehaviours(Range(options.names), MaxExports, hasLoad) :
         host = [hasLoad |-> hasLoad, behaviour |-> b]
  /\ flattenSkips \in (IF Holed(options, host) THEN BOOLEAN ELSE {TRUE})
  /\ CacheCreated
  /\ RecorderIdle

\* getCompilerExtensions: () => { if (!extensions) { extensions =
\* collectCompilerExtensions(); } return extensions; }
\* `raises` tells whether an exception left the call.
CallGetCompilerExtensions(raises) ==
  IF extensions.defined
  THEN /\ raises = FALSE
       /\ UNCHANGED <<extensions, diagnostics, loadCalls, passes>>
  ELSE   LET c == CollectCompilerExtensions(options, host, flattenSkips)
         IN  /\ passes < MaxPasses
             /\ passes' = passes + 1
             /\ raises = c.raised
             /\ diagnostics' = diagnostics \o c.pushed
             /\ loadCalls' = [n \in Names |-> loadCalls[n] + c.loaded[n]]
             /\ extensions' = IF c.raised THEN extensions
                              ELSE [defined |-> TRUE, map |-> c.map]

GetCompilerExtensions ==
  /\ \E raises \in BOOLEAN :
       /\ CallGetCompilerExtensions(raises)
       /\ ret' = IF raises THEN Raised
                  ELSE [kind |-> "map", map |-> extensions'.map, diags |-> <<>>]
       /\ firstExt' = IF raises \/ firstExt.set THEN firstExt
                      ELSE [set |-> TRUE, map |-> extensions'.map]
  /\ UNCHANGED <<options, host, flattenSkips, firstDiags, stack, recorderVars>>

\* getExtensionLoadingDiagnostics: () => { cache.getCompilerExtensions();
\* return diagnostics; }
GetExtensionLoadingDiagnostics ==
  /\ \E raises \in BOOLEAN :
       /\ CallGetCompilerExtensions(raises)
       /\ ret' = IF raises THEN Raised
                  ELSE [kind |-> "diagnostics", map |-> EmptyMap, diags |-> diagnostics']
       /\ firstDiags' = IF raises \/ firstDiags.set THEN firstDiags
                        ELSE [set |-> TRUE, diags |-> diagnostics']
  /\ UNCHANGED <<options, host, flattenSkips, firstExt, stack, recorderVars>>

Next == GetCompilerExtensions \/ GetExtensionLoadingDiagnostics

Spec == Init /\ [][Next]_vars

\* ------------------------------------ discovery with a reentrant host
\* a run of collectCompilerExtensions that has just started: no name handled
\* yet, host.loadExtension not running
NewFrame == [results |-> <<>>, inLoad |-> FALSE]

\* the innermost run in progress
Top == stack[Len(stack)]

\* the name the innermost run handles next, or has handed to
\* host.loadExtension
NextName(frame) == options.names[Len(frame.results) + 1]

\* the TypeError that aggregate.push, flatten or groupBy raises on undefined
RaisedTypeError ==
  [truthy |-> TRUE,
   text   |-> <<"TypeError: Cannot read property 'push' of undefined">>,
   stack  |-> "at collectCompilerExtensions"]

\* the innermost run has handled one more name: its result is recorded and,
\* for an error, the diagnostic pushed (lines 142-153)
NameHandled(frames, res) ==
  /\ stack' = [frames EXCEPT ![Len(frames)] =
                 [results |-> Append(@.results, res), inLoad |-> FALSE]]
  /\ diagnostics' = diagnostics \o LoaderPushes(res)

\* getCompilerExtensions is called, by the program or by host.loadExtension
\* while it runs: lines 106-110 up to the call of collectCompilerExtensions.
\* A call from the host that finds `extensions` set returns at once and
\* changes nothing.
EnterGetCompilerExtensions ==
  /\ IF stack = <<>> THEN TRUE ELSE Top.inLoad
  /\ IF extensions.defined
     THEN /\ stack = <<>>
          /\ ret' = [kind |-> "map", map |-> extensions.map, diags |-> <<>>]
          /\ UNCHANGED <<passes, stack>>
     ELSE /\ passes < MaxPasses
          /\ passes' = passes + 1
          /\ stack' = Append(stack, NewFrame)
          /\ UNCHANGED ret
  /\ UNCHANGED <<options, host, flattenSkips, extensions, diagnostics, loadCalls,
                 firstExt, firstDiags, recorderVars>>

\* the callback of map(extensionNames, ...) for the next name, up to the
\* call of host.loadExtension (lines 124-136)
LoadNextExtension ==
  /\ stack # <<>>
  /\ ~Top.inLoad
  /\ Len(Top.results) < Len(options.names)
  /\ LET res == Loader(host, NextName(Top))
     IN  IF res.called
         THEN /\ loadCalls' = [loadCalls EXCEPT ![NextName(Top)] = @ + 1]
              /\ stack' = [stack EXCEPT ![Len(stack)].inLoad = TRUE]
              /\ UNCHANGED diagnostics
         ELSE /\ NameHandled(stack, res)
              /\ UNCHANGED loadCalls
  /\ UNCHANGED <<options, host, flattenSkips, extensions, passes, ret,
                 firstExt, firstDiags, recorderVars>>

\* host.loadExtension returns or raises, and the callback goes on to line 154
LoadExtensionEnds ==
  /\ stack # <<>>
  /\ Top.inLoad
  /\ NameHandled(stack, Loader(host, NextName(Top)))
  /\ UNCHANGED <<options, host, flattenSkips, extensions, loadCalls, passes, ret,
                 firstExt, firstDiags, recorderVars>>

\* lines 155-200 of the innermost run, and the return into
\* getCompilerExtensions, which assigns `extensions` (line 108).  When the
\* run raises, the TypeError leaves the accessor: into the program, or into
\* host.loadExtension of the enclosing run, whose catch (line 137) takes it.
FinishCollect ==
  /\ stack # <<>>
  /\ ~Top.inLoad
  /\ Len(Top.results) = Len(options.names)
  /\ LET c == Classified(options, Top.results, flattenSkips)
         outer == SubSeq(stack, 1, Len(stack) - 1)
     IN  /\ extensions' = IF c.raised THEN extensions
                          ELSE [defined |-> TRUE, map |-> c.map]
         /\ IF c.raised /\ outer # <<>>
            THEN LET res == [name   |-> NextName(outer[Len(outer)]),
                             result |-> UndefinedResult,
                             error  |-> RaisedTypeError,
                             called |-> TRUE]
                 IN  /\ stack' = [outer EXCEPT ![Len(outer)] =
                                    [results |-> Append(@.results, res), inLoad |-> FALSE]]
                     /\ diagnostics' = diagnostics \o c.pushed \o LoaderPushes(res)
            ELSE /\ stack' = outer
                 /\ diagnostics' = diagnostics \o c.pushed
         /\ ret' = IF outer # <<>> THEN ret
                   ELSE IF c.raised THEN Raised
                   ELSE [kind |-> "map", map |-> c.map, diags |-> <<>>]
  /\ UNCHANGED <<options, host, flattenSkips, loadCalls, passes,
                 firstExt, firstDiags, recorderVars>>

NextReentrant ==
  \/ EnterGetCompilerExtensions
  \/ LoadNextExtension
  \/ LoadExtensionEnds
  \/ FinishCollect

SpecReentrant == Init /\ [][NextReentrant]_vars

\* ------------------------------------- the recorder as a state machine
\* the cache is left alone: no configured name, a host without loadExtension
InitProfile ==
  /\ options = [form |-> "array", names |-> <<>>, args |-> [n \in Names |-> Undefined]]
  /\ host = [hasLoad |-> FALSE, behaviour |-> [n \in Names |-> Unresolved]]
  /\ flattenSkips = TRUE
  /\ CacheCreated
  /\ RecorderIdle

\* export function startExtensionProfile(ext, task); the clock has stood
\* still or moved on since it was last read
StartExtensionProfile ==
  /\ calls < MaxCalls
  /\ calls' = calls + 1
  /\ \E e \in Exts, task \in Tasks, t \in now..(now + 1) :
       /\ now' = t
       /\ exts' = [exts EXCEPT ![e].profiles = Started(@, task, t)]
       /\ lastCall' = [op |-> "start", ext |-> e, task |-> task, time |-> t,
                       outcome |-> "returned"]
       /\ history' = [history EXCEPT ![e][task] = [last |-> "start", written |-> t, completions |-> 0]]
  /\ UNCHANGED <<options, host, flattenSkips, cacheVars>>

\* export function completeExtensionProfile(ext, task)
CompleteExtensionProfile ==
  /\ calls < MaxCalls
  /\ calls' = calls + 1
  /\ \E e \in Exts, task \in Tasks, endTime \in now..(now + 1) :
       \E outcome \in CompleteOutcomes(exts[e].profiles, task) :
         /\ now' = endTime
         /\ exts' = IF HasOwnRecord(exts[e].profiles, task)
                    THEN [exts EXCEPT ![e].profiles = Completed(@, task, endTime)]
                    ELSE exts
         /\ lastCall' = [op |-> "complete", ext |-> e, task |-> task, time |-> endTime,
                         outcome |-> outcome]
         /\ history' = IF outcome = "returned"
                       THEN [history EXCEPT ![e][task].last = "complete",
                                            ![e][task].completions = @ + 1]
                       ELSE history
  /\ UNCHANGED <<options, host, flattenSkips, cacheVars>>

NextProfile == StartExtensionProfile \/ CompleteExtensionProfile

SpecProfile == InitProfile /\ [][NextProfile]_vars

\* ------------------------------------------------- vocabulary of the claims
\* how often a name is configured
Occurrences(n) == Cardinality({ i \in 1..Len(options.names) : options.names[i] = n })

\* the descriptors of a collection map
Descriptors(m) == UNION { Range(m[k]) : k \in DOMAIN m }

\* the export a descriptor was made from
Payload(d) == IF d.ctor # NoRef THEN d.ctor ELSE d.opaque

\* the host finds the name and its load call returns a module object
LoadsModule(n) ==
  /\ host.hasLoad
  /\ host.behaviour[n].resolved
  /\ ~host.behaviour[n].throws
  /\ host.behaviour[n].result.truthy

\* the exports of the module the host loads for a name
ExportsOf(n) == host.behaviour[n].result

\* an export that is validly tagged, and constructible when its kind is known
ValidExport(v) ==
  /\ v.typ # "undefined"
  /\ v.tagtyp = "string"
  /\ (v.tag \in {SemanticLint, SyntacticLint} => v.typ = "function")

\* a known-kind export that is not constructible
InvalidExport(v) ==
  /\ v.typ # "undefined"
  /\ v.tagtyp = "string"
  /\ v.tag \in {SemanticLint, SyntacticLint}
  /\ v.typ # "function"

\* ------------------------------------------------------------------ claims
\* The statements that the code refutes are stated for the builds whose
\* flatten drops undefined elements (flattenSkips): what refutes them then
\* does not rest on how flatten treats such an element.

\* C1 (as claimed): however many accessor calls are made, every call to
\* getCompilerExtensions returns the grouping the first one returned, and
\* host.loadExtension has been invoked once for every configured entry whose
\* name the host resolves (and for no other).
C1_IdempotentLoadOnce ==
  flattenSkips =>
  /\ ret.kind = "map" => firstExt.set /\ ret.map = firstExt.map
  /\ passes >= 1 =>
       \A n \in Names :
         loadCalls[n] = IF host.hasLoad /\ host.behaviour[n].resolved
                        THEN Occurrences(n) ELSE 0

\* C2 (as claimed): discovery returns normally, and every valid export of a
\* module that loaded has its descriptor in the output, whatever fails for
\* other names or other exports.
C2_FailureIsolation ==
  (flattenSkips /\ passes >= 1) =>
    /\ ret.kind # "raised"
    /\ extensions.defined
    /\ \A n \in Range(options.names) :
         LoadsModule(n) =>
           \A j \in 1..Len(ExportsOf(n).keys) :
             ValidExport(ExportsOf(n).vals[j]) =>
               \E d \in Descriptors(extensions.map) :
                 /\ Payload(d).mod = n
                 /\ Payload(d).key = ExportsOf(n).keys[j]

\* a module of exactly two members tagged "syntactic-lint", one constructible
\* and one a plain object, is the only configured extension
TwoSyntacticMembers ==
  /\ options.names = <<"foo">>
  /\ LoadsModule("foo")
  /\ Len(ExportsOf("foo").vals) = 2
  /\ \A j \in 1..2 : /\ ExportsOf("foo").vals[j].tagtyp = "string"
                     /\ ExportsOf("foo").vals[j].tag = SyntacticLint
  /\ \E j \in 1..2 : ExportsOf("foo").vals[j].typ = "function"
  /\ \E j \in 1..2 : ExportsOf("foo").vals[j].typ = "object"

\* C3 (as claimed): such a module yields exactly one accepted descriptor and
\* exactly one diagnostic, and group "syntactic-lint" has length 1, in either
\* enumeration order of the two members.
C3_OneAcceptedOneDiagnostic ==
  (flattenSkips /\ TwoSyntacticMembers /\ passes >= 1) =>
    /\ extensions.defined
    /\ DOMAIN extensions.map = {SyntacticLint}
    /\ Len(extensions.map[SyntacticLint]) = 1
    /\ Len(diagnostics) = 1

\* a load diagnostic whose text names n
NamesExtension(diag, n) ==
  /\ diag.code = "Extension_loading_failed_with_error_0"
  /\ \E j \in 1..Len(diag.args[1]) : diag.args[1][j] = n

\* what C4 says of the configured names whose resolution fails
UnresolvedNamesDiagnosed ==
  \A n \in Range(options.names) :
    ~host.behaviour[n].resolved =>
      /\ \E i \in 1..Len(diagnostics) : NamesExtension(diagnostics[i], n)
      /\ loadCalls[n] = 0
      /\ \A d \in Descriptors(extensions.map) : Payload(d).mod # n /\ d.name # n

LoaderFails(n) ==
  \/ ~host.hasLoad
  \/ ~host.behaviour[n].resolved
  \/ host.behaviour[n].throws

\* C5 (as claimed): after one discovery pass every resolution or load failure,
\* whatever value host.loadExtension raised, has contributed exactly one
\* diagnostic, and a name whose load raised has no descriptor.
C5_OneDiagnosticPerLoadFailure ==
  (flattenSkips /\ passes = 1) =>
    /\ Len(SelectSeq(diagnostics, LAMBDA g : g.code = "Extension_loading_failed_with_error_0"))
         = Cardinality({ i \in 1..Len(options.names) : LoaderFails(options.names[i]) })
    /\ \A n \in Range(options.names) :
         host.behaviour[n].throws =>
           \A d \in Descriptors(extensions.map) : Payload(d).mod # n

\* C6 (as claimed): once an accessor has been called, no later call changes
\* the diagnostics list or the map, and getExtensionLoadingDiagnostics returns
\* what it returned the first time.
C6_ComputedOnce ==
  [][ (flattenSkips /\ passes >= 1) =>
        /\ diagnostics' = diagnostics
        /\ extensions' = extensions
        /\ ((firstDiags.set /\ ret'.kind = "diagnostics") => ret'.diags = firstDiags.diags) ]_vars

RECURSIVE Enumeration(_)
\* the exports of the loaded modules from the i-th configured entry on, as
\* <<module, key>>: configured order, then export-enumeration order
Enumeration(i) ==
  IF i > Len(options.names) THEN <<>>
  ELSE LET n == options.names[i]
       IN  (IF LoadsModule(n)
            THEN [j \in 1..Len(ExportsOf(n).keys) |-> <<n, ExportsOf(n).keys[j]>>]
            ELSE <<>>) \o Enumeration(i + 1)

RECURSIVE IsSubsequence(_, _, _, _)
\* s from position i on is a subsequence of t from position j on
IsSubsequence(s, t, i, j) ==
  IF i > Len(s) THEN TRUE
  ELSE IF j > Len(t) THEN FALSE
  ELSE IF s[i] = t[j] THEN IsSubsequence(s, t, i + 1, j + 1)
  ELSE IsSubsequence(s, t, i, j + 1)

\* C8: in the output no group is empty, every descriptor is in the group of
\* its own kind and in no other, once for each time its module is configured,
\* and every group is in configured-name order across modules and in
\* export-enumeration order within a module.
C8_GroupedInLoadOrder ==
  extensions.defined =>
    LET m == extensions.map
    IN  /\ \A k \in DOMAIN m :
             /\ m[k] # <<>>
             /\ \A i \in 1..Len(m[k]) : m[k][i].kind = k
             /\ IsSubsequence([i \in 1..Len(m[k]) |-> <<Payload(m[k][i]).mod, Payload(m[k][i]).key>>],
                              Enumeration(1), 1, 1)
        /\ \A d \in Descriptors(m) :
             Cardinality({ p \in UNION { { <<k, i>> : i \in 1..Len(m[k]) } : k \in DOMAIN m } :
                             m[p[1]][p[2]] = d })
               = Occurrences(Payload(d).mod)

\* C8 witness: one group of the output holds two descriptors.
C8_Witness ==
  /\ extensions.defined
  /\ \E k \in DOMAIN extensions.map : Len(extensions.map[k]) >= 2

\* a module whose only tagged export is a constructible default export
\* tagged "semantic-lint"
OnlyTaggedIsDefaultSemantic(n) ==
  /\ LoadsModule(n)
  /\ \E j \in 1..Len(ExportsOf(n).keys) :
       /\ ExportsOf(n).keys[j] = "default"
       /\ ExportsOf(n).vals[j] = [typ |-> "function", tagtyp |-> "string", tag |-> SemanticLint]
       /\ \A i \in 1..Len(ExportsOf(n).keys) : i # j => ExportsOf(n).vals[i].tagtyp # "string"

\* C9 (as claimed): a descriptor of module m and key k is named m when k is
\* "default" and m[k] otherwise, and a module whose only tagged export is a
\* constructible default export tagged "semantic-lint" yields exactly one
\* descriptor, in group "semantic-lint", named m.
C9_NamedAfterModule ==
  (flattenSkips /\ passes >= 1) =>
    /\ \A d \in Descriptors(extensions.map) :
         d.name = IF Payload(d).key = "default" THEN Payload(d).mod
                  ELSE Payload(d).mod \o "[" \o Payload(d).key \o "]"
    /\ (options.names = <<"foo">> /\ OnlyTaggedIsDefaultSemantic("foo")) =>
         /\ extensions.defined
         /\ DOMAIN extensions.map = {SemanticLint}
         /\ Len(extensions.map[SemanticLint]) = 1
         /\ extensions.map[SemanticLint][1].name = "foo"

\* C10: a descriptor of module m has the value the mapping holds for m as its
\* args when the extensions are configured as a mapping, and undefined when
\* they are configured as a sequence of names.
C10_ArgsFromConfiguration ==
  extensions.defined =>
    \A d \in Descriptors(extensions.map) :
      d.args = IF options.form = "map" THEN options.args[Payload(d).mod] ELSE Undefined

\* C10 witness: a mapping configuration whose value for a module is not
\* undefined has produced a descriptor of that module.
C10_Witness ==
  /\ extensions.defined
  /\ options.form = "map"
  /\ \E d \in Descriptors(extensions.map) :
       d.args = "{x:1}" /\ options.args[Payload(d).mod] = "{x:1}"

\* ------------------------------------------- claims about the recorder
\* the step is a recorder call of the given kind
RecorderStep(op) == calls' = calls + 1 /\ lastCall'.op = op

\* C11 (as claimed): a completeExtensionProfile(d, T) call on a descriptor
\* that has no profiles mapping, or whose mapping has no record for T, ends
\* in the assertion failure and leaves d.profiles as it was.
C11_AssertsWithoutRecord ==
  [][ (RecorderStep("complete")
         /\ ~HasOwnRecord(exts[lastCall'.ext].profiles, lastCall'.task)) =>
        /\ lastCall'.outcome = "assertion"
        /\ exts'[lastCall'.ext].profiles = exts[lastCall'.ext].profiles ]_vars

\* C12: when completeExtensionProfile(d, T) is the next recorder call for
\* (d, T) after a startExtensionProfile(d, T), whatever was called for other
\* tasks and descriptors in between, it returns and leaves under T a record
\* whose start is the clock value that start wrote and whose length is the
\* clock value of the completion minus that start, which is not negative.
C12_LengthIsElapsedTime ==
  [][ (RecorderStep("complete")
         /\ history[lastCall'.ext][lastCall'.task].last = "start") =>
        LET e == lastCall'.ext
            T == lastCall'.task
            written == history[e][T].written
        IN  /\ lastCall'.outcome = "returned"
            /\ HasOwnRecord(exts'[e].profiles, T)
            /\ exts'[e].profiles.own[T].start = written
            /\ exts'[e].profiles.own[T].length = lastCall'.time - written
            /\ exts'[e].profiles.own[T].length >= 0 ]_vars

\* C12 witness: a task was completed one clock tick after its start, and a
\* record of another task or descriptor was started in between or at either
\* end of that interval.
C12_Witness ==
  /\ lastCall.op = "complete"
  /\ lastCall.outcome = "returned"
  /\ HasOwnRecord(exts[lastCall.ext].profiles, lastCall.task)
  /\ exts[lastCall.ext].profiles.own[lastCall.task].length >= 1
  /\ calls >= 3
  /\ \E e \in Exts, t \in Tasks :
       /\ <<e, t>> # <<lastCall.ext, lastCall.task>>
       /\ HasOwnRecord(exts[e].profiles, t)

\* C17: a startExtensionProfile(d, T) call returns; afterwards d has a
\* profiles mapping whose record for T is {task: T, start: the clock value
\* read, length: -1}, whether or not there was one before; the records of
\* the other tasks of d and the other fields of d are as they were.
C17_StartWritesFreshRecord ==
  [][ RecorderStep("start") =>
        LET e == lastCall'.ext
            T == lastCall'.task
            before == exts[e]
            after == exts'[e]
        IN  /\ lastCall'.outcome = "returned"
            /\ after.profiles.defined
            /\ T \in DOMAIN after.profiles.own
            /\ after.profiles.own[T] = [task |-> T, start |-> lastCall'.time, length |-> -1]
            /\ \A u \in Tasks \ {T} :
                 /\ HasOwnRecord(after.profiles, u) <=> HasOwnRecord(before.profiles, u)
                 /\ HasOwnRecord(before.profiles, u) =>
                      after.profiles.own[u] = before.profiles.own[u]
            /\ after.name = before.name
            /\ after.args = before.args
            /\ after.kind = before.kind ]_vars

\* C17 witness: a task was started, as the third recorder call or later, on
\* a descriptor that holds a record of another task.
C17_Witness ==
  /\ lastCall.op = "start"
  /\ calls >= 3
  /\ \E u \in Tasks \ {lastCall.task} : HasOwnRecord(exts[lastCall.ext].profiles, u)
  /\ exts[lastCall.ext].profiles.own[lastCall.task].length = -1
  /\ exts[lastCall.ext].profiles.own[lastCall.task].start = lastCall.time

\* what C19 says of the records in a state
RecordsFollowHistory ==
  \A e \in Exts, T \in Tasks :
    HasOwnRecord(exts[e].profiles, T) =>
      LET rec == exts[e].profiles.own[T]
      IN  /\ rec.task = T
          /\ rec.length = -1 <=> history[e][T].last = "start"
          /\ history[e][T].last # "start" => rec.length >= 0

\* C19: with a clock that never goes backwards, after any recorder calls a
\* record stored under T has task T, has length -1 exactly when the latest
\* recorder call for T that returned was a start, and has a length that is
\* not negative otherwise; completing a task that is already completed
\* returns and changes nothing of its record but the length.
C19_RecordsFollowCalls ==
  [][ /\ RecordsFollowHistory'
      /\ (RecorderStep("complete")
            /\ history[lastCall'.ext][lastCall'.task].last = "complete"
            /\ HasOwnRecord(exts[lastCall'.ext].profiles, lastCall'.task)) =>
           LET e == lastCall'.ext
               T == lastCall'.task
           IN  /\ lastCall'.outcome = "returned"
               /\ exts'[e].profiles.own[T].start = exts[e].profiles.own[T].start
               /\ exts'[e].profiles.own[T].task = exts[e].profiles.own[T].task
               /\ exts'[e].profiles.own[T].length = lastCall'.time - exts[e].profiles.own[T].start
    ]_vars

\* C19 witness: a task has been completed twice since its start, the second
\* time later than the first.
C19_Witness ==
  /\ lastCall.op = "complete"
  /\ lastCall.outcome = "returned"
  /\ history[lastCall.ext][lastCall.task].completions = 2
  /\ exts[lastCall.ext].profiles.own[lastCall.task].length >= 1

\* ------------------------------- claims about the classifier and loader
\* an export the classifier passes over: null or undefined, or without a
\* string "extension-kind"
SkippedExport(v) == v.typ = "undefined" \/ v.tagtyp # "string"

\* every export of every configured module that loads is either passed over
\* or valid
OnlyValidOrSkippedExports ==
  \A n \in Range(options.names) :
    LoadsModule(n) =>
      \A j \in 1..Len(ExportsOf(n).vals) :
        SkippedExport(ExportsOf(n).vals[j]) \/ ValidExport(ExportsOf(n).vals[j])

\* C13 (as claimed): exports that are null or undefined or have no string
\* tag are passed over silently: when the modules have only such exports and
\* valid ones, discovery raises nothing and pushes no validation diagnostic,
\* no passed-over export has a descriptor, and every valid export of the same
\* module, before or after it, has one.
C13_SkippedSilently ==
  (flattenSkips /\ passes >= 1 /\ OnlyValidOrSkippedExports) =>
    /\ ret.kind # "raised"
    /\ extensions.defined
    /\ \A i \in 1..Len(diagnostics) :
         diagnostics[i].code = "Extension_loading_failed_with_error_0"
    /\ \A n \in Range(options.names) :
         LoadsModule(n) =>
           \A j \in 1..Len(ExportsOf(n).keys) :
             (\E d \in Descriptors(extensions.map) :
                 /\ Payload(d).mod = n
                 /\ Payload(d).key = ExportsOf(n).keys[j])
               <=> ValidExport(ExportsOf(n).vals[j])

\* the export of module n under a key
ExportAt(n, key) ==
  ExportsOf(n).vals[CHOOSE j \in 1..Len(ExportsOf(n).keys) : ExportsOf(n).keys[j] = key]

\* C14: a descriptor of the output has the tag of its export as its kind and
\* one payload field: ctor, holding a function, when the kind is
\* "syntactic-lint" or "semantic-lint", and the opaque raw-export field, of
\* whatever type, for any other kind; an export of a known kind that is not
\* a function has no descriptor.
C14_OneKindOnePayload ==
  extensions.defined =>
    \A d \in Descriptors(extensions.map) :
      /\ d.kind = ExportAt(Payload(d).mod, Payload(d).key).tag
      /\ d.kind \in {SemanticLint, SyntacticLint} =>
           /\ d.ctor # NoRef
           /\ d.ctor.typ = "function"
           /\ d.opaque = NoRef
      /\ d.kind \notin {SemanticLint, SyntacticLint} =>
           /\ d.opaque # NoRef
           /\ d.ctor = NoRef
      /\ ~InvalidExport(ExportAt(Payload(d).mod, Payload(d).key))

\* C14 witness: the output holds a descriptor of a kind that is not known,
\* made from an export that is not a function, and the modules also have a
\* known-kind export that is not a function.
C14_Witness ==
  /\ extensions.defined
  /\ \E d \in Descriptors(extensions.map) : d.opaque # NoRef /\ d.opaque.typ = "object"
  /\ \E n \in Range(options.names) :
       /\ LoadsModule(n)
       /\ \E j \in 1..Len(ExportsOf(n).vals) : InvalidExport(ExportsOf(n).vals[j])

\* C15 (as claimed): a validation diagnostic carries, in this order, the
\* module name, the export key, the kind tag the export declares
\* ("syntactic-lint" or "semantic-lint", never undefined), the typeof of the
\* export, and "function".
C15_ValidationDiagnosticArguments ==
  \A i \in 1..Len(diagnostics) :
    diagnostics[i].code # "Extension_loading_failed_with_error_0" =>
      LET a == diagnostics[i].args
          v == ExportAt(a[1][1], a[2][1])
      IN  /\ Len(a) = 5
          /\ a[1][1] \in Range(options.names)
          /\ InvalidExport(v)
          /\ a[3] = <<v.tag>>
          /\ a[3] # <<Undefined>>
          /\ a[4] = <<v.typ>>
          /\ a[5] = <<"function">>

\* the diagnostics of the code, in the order of the list
DiagnosticsOf(code) == SelectSeq(diagnostics, LAMBDA g : g.code = code)

\* the load diagnostics one pass over the configured names pushes
LoadDiagnosticsInNameOrder == LoaderDiagnostics(ExtensionLoadResults(options, host), 1)

\* C18 (as claimed): in the diagnostics list every load diagnostic is before
\* every validation diagnostic, the load diagnostics are in the order of the
\* configured names, and the validation diagnostics are in the order of the
\* modules and, within a module, of its exports.
C18_LoadBeforeValidation ==
  (flattenSkips /\ passes >= 1) =>
    LET validation == SelectSeq(diagnostics,
                        LAMBDA g : g.code # "Extension_loading_failed_with_error_0")
    IN  /\ \A i, j \in 1..Len(diagnostics) :
             (diagnostics[i].code # "Extension_loading_failed_with_error_0"
                /\ diagnostics[j].code = "Extension_loading_failed_with_error_0") => j < i
        /\ DiagnosticsOf("Extension_loading_failed_with_error_0") = LoadDiagnosticsInNameOrder
        /\ IsSubsequence([i \in 1..Len(validation) |->
                            <<validation[i].args[1][1], validation[i].args[2][1]>>],
                         Enumeration(1), 1, 1)

\* the host finds the name and its load call returns undefined, null or
\* another falsy value
LoadGivesNothing(n) ==
  /\ host.hasLoad
  /\ host.behaviour[n].resolved
  /\ ~host.behaviour[n].throws
  /\ ~host.behaviour[n].result.truthy

\* C20: a configured name that resolves and whose load returns a falsy value
\* has no descriptor and no diagnostic: a pass pushes no more load
\* diagnostics than there are other configured entries, none names it, and
\* when every configured name is of this kind the accessor returns an empty
\* output and the diagnostics list stays empty.
C20_FalsyLoadIsSilent ==
  passes >= 1 =>
    /\ \A n \in Range(options.names) :
         LoadGivesNothing(n) =>
           /\ \A d \in Descriptors(extensions.map) : Payload(d).mod # n
           /\ \A i \in 1..Len(diagnostics) :
                /\ ~NamesExtension(diagnostics[i], n)
                /\ diagnostics[i].code # "Extension_loading_failed_with_error_0" =>
                     diagnostics[i].args[1] # <<n>>
    /\ passes = 1 =>
         Len(DiagnosticsOf("Extension_loading_failed_with_error_0"))
           <= Cardinality({ i \in 1..Len(options.names) : ~LoadGivesNothing(options.names[i]) })
    /\ (\A n \in Range(options.names) : LoadGivesNothing(n)) =>
         /\ ret.kind # "raised"
         /\ extensions.defined
         /\ extensions.map = EmptyMap
         /\ diagnostics = <<>>

\* C20 witness: discovery has returned with an empty diagnostics list for two
\* configured names, one of which gave nothing and has no descriptor while
\* the other has one.
C20_Witness ==
  /\ passes >= 1
  /\ extensions.defined
  /\ diagnostics = <<>>
  /\ \E n \in Range(options.names) : LoadGivesNothing(n)
  /\ Descriptors(extensions.map) # {}

\* ----------------------------------------------- claim about reentrancy
\* C16 (as claimed): while a discovery pass is in progress no accessor call,
\* such as one made by host.loadExtension, starts another pass, so no name
\* that the pass has handed to the host is loaded again.
C16_NoPassInsideAPass ==
  [][ stack # <<>> => /\ passes' = passes
                      /\ Len(stack') <= 1 ]_vars

====
